---------------------------- MODULE Spec2Model ----------------------------
(***************************************************************************)
(* Model of pororo/models/brainbert/PoSLaBERTa.py:                          *)
(*   RobertaSegmentModel      - the head registry (classification_heads),   *)
(*                              register_classification_head and the        *)
(*                              checkpoint reconciliation                   *)
(*                              upgrade_state_dict_named;                   *)
(*   SegmentBertHubInterface  - encode, extract_features, predict,          *)
(*                              predict_dependency over a loaded model.     *)
(*                                                                         *)
(* Python dicts (nn.ModuleDict, the state dict) keep insertion order, so    *)
(* they are sequences of [k, v] pairs.  A dotted parameter name such as     *)
(* "classification_heads.h.dense.weight" is the sequence of its components. *)
(* Python's None is the integer None below.                                 *)
(***************************************************************************)
EXTENDS Integers, Sequences, FiniteSets, TLC

VARIABLES
    classification_heads,  \* self.classification_heads (nn.ModuleDict)
    state_dict,            \* the saved parameter mapping handed to the model
    printed,               \* what the last operation printed
    next_id,               \* number of head modules constructed so far
    reg_args,              \* history: arguments of the last registration of each name
    op,                    \* history: the last operation and its arguments
    pre,                   \* history: registry and mapping before the last operation
    max_positions,         \* args.max_positions
    task,                  \* self.task: the dictionaries
    out                    \* outcome of the last hub-interface call

vars == <<classification_heads, state_dict, printed, next_id, reg_args, op, pre,
          max_positions, task, out>>

modelVars == <<classification_heads, state_dict, printed, next_id, reg_args>>
hubVars == <<max_positions, task, out>>

----------------------------------------------------------------------------
(* Bounds and program constants *)

MaxInst == 3         \* registrations in one run of the registration machine
MaxCkptKeys == 2     \* entries of a checkpoint mapping handed to the model

None == -1
encoder_embed_dim == 768
DefaultNumClasses == 48
DefaultInnerDim == 768

HeadNames == {"dependency_parse_head", "sentence_classification_head"}
NumClassesArgs == {48, 2}
InnerDimArgs == {None, 768, 256}
ModelNames == {<<>>, <<"model">>}     \* name = "" and name = "model"

----------------------------------------------------------------------------
(* Ordered dictionaries *)

Keys(d) == {d[i].k : i \in DOMAIN d}
Contains(d, key) == \E i \in DOMAIN d : d[i].k = key
IndexOf(d, key) == CHOOSE i \in DOMAIN d : d[i].k = key
GetItem(d, key) == d[IndexOf(d, key)].v
SetItem(d, key, val) ==
    IF Contains(d, key)
    THEN [d EXCEPT ![IndexOf(d, key)] = [k |-> key, v |-> val]]
    ELSE Append(d, [k |-> key, v |-> val])

StartsWith(s, p) == Len(s) >= Len(p) /\ SubSeq(s, 1, Len(p)) = p

\* Python's `a or b` on integers and None
Or(a, b) == IF a = None \/ a = 0 THEN b ELSE a

----------------------------------------------------------------------------
(* Heads and their parameters *)

\* RobertaClassificationHead(input_dim, inner_dim, num_classes, ...): a dense
\* layer input_dim -> inner_dim and an output projection inner_dim -> num_classes.
\* id tells one constructed module (and its fresh weights) from another.
RobertaClassificationHead(input_dim, inner_dim, num_classes, id) ==
    [input_dim |-> input_dim, inner_dim |-> inner_dim,
     num_classes |-> num_classes, id |-> id]

\* head.out_proj.out_features and head.dense.out_features
OutProjOutFeatures(head) == head.num_classes
DenseOutFeatures(head) == head.inner_dim

ParamNames == << <<"dense", "weight">>, <<"dense", "bias">>,
                 <<"out_proj", "weight">>, <<"out_proj", "bias">> >>

\* The tensor a head holds under a parameter name.
ParamTensor(head, p) ==
    [origin |-> "live", owner |-> head.id,
     rows |-> IF p[1] = "dense" THEN head.inner_dim ELSE head.num_classes,
     cols |-> IF p[2] = "bias" THEN 0
              ELSE IF p[1] = "dense" THEN head.input_dim ELSE head.inner_dim]

\* self.classification_heads.state_dict(): "<head>.<param>" -> tensor, heads in
\* registry order, parameters in module order.
RECURSIVE HeadsStateDict(_)
HeadsStateDict(heads) ==
    IF heads = <<>> THEN <<>>
    ELSE [i \in 1..Len(ParamNames) |->
             [k |-> <<heads[1].k>> \o ParamNames[i],
              v |-> ParamTensor(heads[1].v, ParamNames[i])]]
         \o HeadsStateDict(Tail(heads))

----------------------------------------------------------------------------
(* RobertaSegmentModel.register_classification_head *)

\* m is the part of the model a registration touches:
\* [heads, printed, next_id, reg_args].
WarningMsg(name, num_classes, prev_num_classes, inner_dim, prev_inner_dim) ==
    [kind |-> "WARNING: re-registering head", key |-> <<name>>,
     num_classes |-> num_classes, prev_num_classes |-> prev_num_classes,
     inner_dim |-> inner_dim, prev_inner_dim |-> prev_inner_dim]

\* line 293: the comparison that decides whether the warning is printed
ShapeDiffers(num_classes, inner_dim, prev_num_classes, prev_inner_dim) ==
    num_classes # prev_num_classes \/ inner_dim # prev_inner_dim

register_classification_head(m, name, num_classes, inner_dim) ==
    LET warning ==
            IF Contains(m.heads, name)
            THEN LET prev_num_classes == OutProjOutFeatures(GetItem(m.heads, name))
                     prev_inner_dim == DenseOutFeatures(GetItem(m.heads, name))
                 IN IF ShapeDiffers(num_classes, inner_dim,
                                    prev_num_classes, prev_inner_dim)
                    THEN << WarningMsg(name, num_classes, prev_num_classes,
                                       inner_dim, prev_inner_dim) >>
                    ELSE <<>>
            ELSE <<>>
    IN [heads |-> SetItem(m.heads, name,
                     RobertaClassificationHead(encoder_embed_dim,
                                               Or(inner_dim, encoder_embed_dim),
                                               num_classes, m.next_id)),
        printed |-> m.printed \o warning,
        next_id |-> m.next_id + 1,
        reg_args |-> [m.reg_args EXCEPT ![name] =
                         [set |-> TRUE, num_classes |-> num_classes,
                          inner_dim |-> inner_dim]]]

----------------------------------------------------------------------------
(* RobertaSegmentModel.upgrade_state_dict_named *)

\* prefix + "classification_heads."
HeadsPrefix(name) == name \o <<"classification_heads">>

\* k.startswith(prefix + "classification_heads."): the trailing dot asks for
\* one more component after the prefix.
IsHeadKey(key, name) ==
    StartsWith(key, HeadsPrefix(name)) /\ Len(key) > Len(HeadsPrefix(name))

\* k[len(prefix + "classification_heads."):].split(".")[0]
HeadNameOf(key, name) == key[Len(HeadsPrefix(name)) + 1]

\* Faulty variant: the membership test is lost and every head key registers.
NotInCurrentHeadNamesAlways(heads, head_name) == TRUE

\* line 354: current_head_names is the registry's live key view
NotInCurrentHeadNames(heads, head_name) == ~Contains(heads, head_name)

\* Faulty variant: the class count is read from the stored tensor.
CheckpointHeadShapeStored(sd, key) ==
    [num_classes |-> GetItem(sd, key).rows, inner_dim |-> DefaultInnerDim]

\* lines 351-352
CheckpointHeadShape(sd, key) ==
    [num_classes |-> DefaultNumClasses, inner_dim |-> DefaultInnerDim]

\* lines 346-359: the loop over state_dict.keys(), from entry i on
RECURSIVE RegisterMissingHeads(_, _, _, _)
RegisterMissingHeads(m, sd, name, i) ==
    IF i > Len(sd) THEN m
    ELSE LET key == sd[i].k IN
         IF ~IsHeadKey(key, name)
         THEN RegisterMissingHeads(m, sd, name, i + 1)
         ELSE LET head_name == HeadNameOf(key, name)
                  shape == CheckpointHeadShape(sd, key)
              IN IF NotInCurrentHeadNames(m.heads, head_name)
                 THEN RegisterMissingHeads(
                          register_classification_head(
                              m, head_name, shape.num_classes, shape.inner_dim),
                          sd, name, i + 1)
                 ELSE RegisterMissingHeads(m, sd, name, i + 1)

\* Faulty variants: the test is inverted; the test is lost and every key is copied.
NotInStateDictInverted(sd, key) == Contains(sd, key)
NotInStateDictAlways(sd, key) == TRUE

\* line 369
NotInStateDict(sd, key) == ~Contains(sd, key)

OverwritingMsg(key) ==
    [kind |-> "Overwriting", key |-> key,
     num_classes |-> 0, prev_num_classes |-> 0,
     inner_dim |-> 0, prev_inner_dim |-> 0]

\* lines 367-371: the loop over cur_state.items(), from entry i on;
\* r is [state_dict, printed]
RECURSIVE CopyLiveHeads(_, _, _, _)
CopyLiveHeads(r, cur_state, name, i) ==
    IF i > Len(cur_state) THEN r
    ELSE LET key == HeadsPrefix(name) \o cur_state[i].k IN
         IF NotInStateDict(r.state_dict, key)
         THEN CopyLiveHeads(
                  [state_dict |-> SetItem(r.state_dict, key, cur_state[i].v),
                   printed |-> Append(r.printed, OverwritingMsg(key))],
                  cur_state, name, i + 1)
         ELSE CopyLiveHeads(r, cur_state, name, i + 1)

\* lines 361-362: keys_to_delete stays empty
RECURSIVE DeleteKeys(_, _)
DeleteKeys(sd, keys_to_delete) ==
    IF keys_to_delete = <<>> THEN sd
    ELSE DeleteKeys(SelectSeq(sd, LAMBDA e : e.k # Head(keys_to_delete)),
                    Tail(keys_to_delete))

\* the whole method: [heads, printed, next_id, reg_args, state_dict]
UpgradeStateDictNamed(m, sd, name) ==
    LET m1 == RegisterMissingHeads(m, sd, name, 1)
        sd1 == DeleteKeys(sd, <<>>)
        r == CopyLiveHeads([state_dict |-> sd1, printed |-> m1.printed],
                           HeadsStateDict(m1.heads), name, 1)
    IN [heads |-> m1.heads, printed |-> r.printed, next_id |-> m1.next_id,
        reg_args |-> m1.reg_args, state_dict |-> r.state_dict]

----------------------------------------------------------------------------
(* Checkpoint mappings handed to the model *)

CkptNumClasses == {48, 3}     \* the true class count of the heads of a checkpoint

\* Parameter names a checkpoint may hold, in file order.
CkptKeyUniverse ==
    << <<"decoder", "lm_head", "bias">>,
       <<"classification_heads", "dependency_parse_head", "dense", "weight">>,
       <<"classification_heads", "dependency_parse_head", "out_proj", "weight">>,
       <<"classification_heads", "sentence_classification_head", "out_proj", "weight">>,
       <<"model", "classification_heads", "dependency_parse_head", "out_proj", "weight">> >>

CkptTensor(nc) == [origin |-> "checkpoint", owner |-> 0, rows |-> nc, cols |-> 0]

RECURSIVE CkptMapping(_, _, _)
CkptMapping(S, nc, i) ==
    IF i > Len(CkptKeyUniverse) THEN <<>>
    ELSE (IF i \in S THEN << [k |-> CkptKeyUniverse[i], v |-> CkptTensor(nc)] >>
          ELSE <<>>)
         \o CkptMapping(S, nc, i + 1)

CheckpointMappings ==
    {CkptMapping(S, nc, 1) :
        S \in {T \in SUBSET (1..Len(CkptKeyUniverse)) : Cardinality(T) <= MaxCkptKeys},
        nc \in CkptNumClasses}

----------------------------------------------------------------------------
(* State machine of the model's life cycle *)

NoArgs == [set |-> FALSE, num_classes |-> 0, inner_dim |-> 0]
NoRegArgs == [n \in HeadNames |-> NoArgs]

NoOp == [kind |-> "init", head |-> "", model_name |-> <<>>,
         num_classes |-> 0, inner_dim |-> 0, second |-> FALSE,
         registered |-> {}, prev_registered |-> {}]

\* __init__, line 146
EmptyModel == [heads |-> <<>>, printed |-> <<>>, next_id |-> 1,
               reg_args |-> NoRegArgs]

\* Registries a constructed model can hold when a checkpoint is loaded:
\* each is built from the empty registry by register_classification_head.
InitialModels ==
    LET dep == "dependency_parse_head"
        sen == "sentence_classification_head"
    IN { EmptyModel,
         register_classification_head(EmptyModel, dep, 48, 768),
         register_classification_head(EmptyModel, dep, 2, 256),
         register_classification_head(EmptyModel, sen, 2, None),
         register_classification_head(
             register_classification_head(EmptyModel, sen, 2, None), dep, 48, 768) }

InitModel(models) ==
    /\ \E m \in models :
          /\ classification_heads = m.heads
          /\ next_id = m.next_id
          /\ reg_args = m.reg_args
          /\ pre = [heads |-> m.heads, state_dict |-> <<>>, reg_args |-> m.reg_args,
                    task |-> <<>>]
    /\ state_dict = <<>>
    /\ printed = <<>>
    /\ op = NoOp

Model == [heads |-> classification_heads, printed |-> <<>>,
          next_id |-> next_id, reg_args |-> reg_args]

\* model.register_classification_head(name, num_classes, inner_dim)
Register(name, num_classes, inner_dim) ==
    /\ next_id <= MaxInst
    /\ LET m == register_classification_head(Model, name, num_classes, inner_dim)
       IN /\ classification_heads' = m.heads
          /\ printed' = m.printed
          /\ next_id' = m.next_id
          /\ reg_args' = m.reg_args
    /\ op' = [NoOp EXCEPT !.kind = "register", !.head = name,
                          !.num_classes = num_classes, !.inner_dim = inner_dim,
                          !.registered = {name}, !.prev_registered = op.registered]
    /\ pre' = [heads |-> classification_heads, state_dict |-> state_dict,
               reg_args |-> reg_args, task |-> <<>>]
    /\ UNCHANGED <<state_dict, hubVars>>

\* model.upgrade_state_dict_named(sd, name); the mapping is changed in place.
\* sd is a checkpoint's mapping or the mapping the last call left.
Upgrade(sd, name) ==
    /\ LET u == UpgradeStateDictNamed(Model, sd, name)
       IN /\ classification_heads' = u.heads
          /\ printed' = u.printed
          /\ next_id' = u.next_id
          /\ reg_args' = u.reg_args
          /\ state_dict' = u.state_dict
    /\ op' = [NoOp EXCEPT !.kind = "upgrade", !.model_name = name,
                 !.second = (op.kind = "upgrade" /\ op.model_name = name
                             /\ sd = state_dict),
                 !.registered = Keys(classification_heads') \ Keys(classification_heads),
                 !.prev_registered = op.registered]
    /\ pre' = [heads |-> classification_heads, state_dict |-> sd,
               reg_args |-> reg_args, task |-> <<>>]
    /\ UNCHANGED hubVars

\* The hub interface is not used in the life-cycle machines.
InitHubIdle ==
    /\ max_positions = 512
    /\ task = [source_dictionary |-> <<>>]
    /\ out = [status |-> "none"]

\* Loading: a constructed model reconciles checkpoint mappings.
Init == InitModel(InitialModels) /\ InitHubIdle

Next ==
    \E sd \in CheckpointMappings \cup {state_dict}, name \in ModelNames :
        Upgrade(sd, name)

Spec == Init /\ [][Next]_vars

\* Registration alone, with every argument combination.
InitRegister == InitModel({EmptyModel}) /\ InitHubIdle

NextRegister ==
    \E name \in HeadNames, nc \in NumClassesArgs, idim \in InnerDimArgs :
        Register(name, nc, idim)

SpecRegister == InitRegister /\ [][NextRegister]_vars

----------------------------------------------------------------------------
(* Properties of the checkpoint reconciliation (Spec) *)

Upgraded == op.kind = "upgrade"

\* Head names the mapping handed to the last call held under
\* "<prefix>classification_heads."
NamesInMapping(sd, name) ==
    {HeadNameOf(sd[i].k, name) : i \in {j \in DOMAIN sd : IsHeadKey(sd[j].k, name)}}

\* Full mapping key of a live head's parameter
LiveKey(name, head_name, p) == HeadsPrefix(name) \o <<head_name>> \o p

LiveKeys(heads, name) ==
    {LiveKey(name, heads[i].k, ParamNames[j]) :
        i \in DOMAIN heads, j \in DOMAIN ParamNames}

\* C1: every head name that the mapping holds under
\* "<prefix>classification_heads." and that the live registry lacked is in the
\* registry after the call, with 48 output classes and inner dim 768, whatever
\* shape the mapping stores for it.
C1_MissingHeadsGetDefaultShape ==
    Upgraded =>
        \A h \in NamesInMapping(pre.state_dict, op.model_name) \ Keys(pre.heads) :
            /\ Contains(classification_heads, h)
            /\ OutProjOutFeatures(GetItem(classification_heads, h)) = 48
            /\ DenseOutFeatures(GetItem(classification_heads, h)) = 768

\* A head missing from the registry whose stored parameters have 3 rows was
\* reconciled.
C1_Witness ==
    /\ Upgraded
    /\ \E i \in DOMAIN pre.state_dict :
          /\ IsHeadKey(pre.state_dict[i].k, op.model_name)
          /\ HeadNameOf(pre.state_dict[i].k, op.model_name) \notin Keys(pre.heads)
          /\ pre.state_dict[i].v.rows = 3
          /\ Contains(classification_heads,
                      HeadNameOf(pre.state_dict[i].k, op.model_name))

OverwritingKeys == {printed[i].key : i \in {j \in DOMAIN printed :
                                              printed[j].kind = "Overwriting"}}

\* C2: after the call every parameter of every live head has an entry in the
\* mapping; an entry that was missing before holds the live head's tensor; and
\* "Overwriting" is printed once for each key copied and for no other key.
C2_LiveHeadsCopiedIntoMapping ==
    Upgraded =>
        LET copied == LiveKeys(classification_heads, op.model_name)
                          \ Keys(pre.state_dict)
        IN /\ \A i \in DOMAIN classification_heads, j \in DOMAIN ParamNames :
                 LET key == LiveKey(op.model_name, classification_heads[i].k,
                                    ParamNames[j])
                 IN /\ Contains(state_dict, key)
                    /\ key \in copied =>
                          GetItem(state_dict, key) =
                              ParamTensor(classification_heads[i].v, ParamNames[j])
           /\ OverwritingKeys = copied
           /\ Cardinality({i \in DOMAIN printed : printed[i].kind = "Overwriting"})
                 = Cardinality(copied)

\* A call that copied some parameters of a live head and found another
\* parameter of a live head already in the mapping.
C2_Witness ==
    /\ Upgraded
    /\ OverwritingKeys # {}
    /\ LiveKeys(classification_heads, op.model_name) \cap Keys(pre.state_dict) # {}

\* C9: the call removes no entry of the mapping and changes no value of an
\* entry that was there, and every head that was registered before the call is
\* afterwards the same module, also when the mapping holds parameters for it.
C9_ReconciliationOnlyAdds ==
    Upgraded =>
        /\ \A i \in DOMAIN pre.state_dict :
              /\ Contains(state_dict, pre.state_dict[i].k)
              /\ GetItem(state_dict, pre.state_dict[i].k) = pre.state_dict[i].v
        /\ \A i \in DOMAIN pre.heads :
              /\ Contains(classification_heads, pre.heads[i].k)
              /\ GetItem(classification_heads, pre.heads[i].k) = pre.heads[i].v

\* The mapping held parameters for a head that was already registered, with a
\* shape other than the default, and a new head was registered in the same call.
C9_Witness ==
    /\ Upgraded
    /\ \E h \in NamesInMapping(pre.state_dict, op.model_name) \cap Keys(pre.heads) :
          OutProjOutFeatures(GetItem(pre.heads, h)) # 48
    /\ op.registered # {}
    /\ pre.state_dict # <<>>

\* C10: a second application with the same name to the results of the first
\* registers no head, copies nothing, prints nothing and leaves the registry
\* and the mapping as the first application left them.
C10_ReconciliationIdempotent ==
    op.second =>
        /\ classification_heads = pre.heads
        /\ state_dict = pre.state_dict
        /\ printed = <<>>
        /\ op.registered = {}
        /\ reg_args = pre.reg_args

\* The first application registered a head for which the mapping holds
\* several checkpoint entries and copied parameters; then the second ran.
C10_Witness ==
    /\ op.second
    /\ \E h \in op.prev_registered :
          Cardinality({i \in DOMAIN state_dict :
                         /\ IsHeadKey(state_dict[i].k, op.model_name)
                         /\ HeadNameOf(state_dict[i].k, op.model_name) = h
                         /\ state_dict[i].v.origin = "checkpoint"}) >= 2
    /\ \E i \in DOMAIN state_dict : state_dict[i].v.origin = "live"

----------------------------------------------------------------------------
(* Properties of registration (SpecRegister) *)

\* C3: re-registering a registered name prints no warning when the call's
\* shape arguments equal those of the call that registered the head, prints
\* exactly one warning when they differ, and in that case stores a head of the
\* new shape.  (Violated: the warning compares the raw inner_dim argument with
\* the resolved inner dim of the stored head.)
C3_WarningIffArgumentsDiffer ==
    (op.kind = "register" /\ Contains(pre.heads, op.head)) =>
        LET first == pre.reg_args[op.head]
            same == /\ first.num_classes = op.num_classes
                    /\ first.inner_dim = op.inner_dim
            head == GetItem(classification_heads, op.head)
        IN /\ same => printed = <<>>
           /\ ~same => /\ Len(printed) = 1
                       /\ OutProjOutFeatures(head) = op.num_classes
                       /\ DenseOutFeatures(head) = Or(op.inner_dim, encoder_embed_dim)

----------------------------------------------------------------------------
(* Dictionaries (self.task) *)

\* A string is the sequence of its whitespace-separated tokens: concatenation
\* with " " between is \o, and str.split() is the identity on it.
Specials == <<"<s>", "<pad>", "</s>", "<unk>">>
SpecialIndex(sym) == (CHOOSE i \in DOMAIN Specials : Specials[i] = sym) - 1
BosIndex == SpecialIndex("<s>")
EosIndex == SpecialIndex("</s>")
UnkIndex == SpecialIndex("<unk>")

MakeDictionary(extra_specials, regular) ==
    [symbols |-> Specials \o extra_specials \o regular,
     nspecial |-> Len(Specials) + Len(extra_specials)]

\* Dictionary.index(sym): ids are 0-based; an unknown symbol is <unk>
DictIndex(dict, sym) ==
    IF \E i \in DOMAIN dict.symbols : dict.symbols[i] = sym
    THEN (CHOOSE i \in DOMAIN dict.symbols : dict.symbols[i] = sym) - 1
    ELSE UnkIndex

\* Dictionary.string([id]): the symbol of the id (<unk> past the end); bos and
\* eos are left out of the rendering
DictString(dict, id) ==
    IF id = EosIndex \/ id = BosIndex THEN ""
    ELSE IF id < Len(dict.symbols) THEN dict.symbols[id + 1]
    ELSE dict.symbols[UnkIndex + 1]

\* Dictionary.encode_line(line, append_eos, add_if_not_exist)
RECURSIVE EncodeLine(_, _, _, _)
EncodeLine(dict, line, append_eos, add_if_not_exist) ==
    IF line = <<>>
    THEN [ids |-> IF append_eos THEN <<EosIndex>> ELSE <<>>, dict |-> dict]
    ELSE LET sym == Head(line)
             known == \E i \in DOMAIN dict.symbols : dict.symbols[i] = sym
             d1 == IF ~known /\ add_if_not_exist
                   THEN [dict EXCEPT !.symbols = Append(dict.symbols, sym)]
                   ELSE dict
             rest == EncodeLine(d1, Tail(line), append_eos, add_if_not_exist)
         IN [ids |-> <<DictIndex(d1, sym)>> \o rest.ids, dict |-> rest.dict]

SourceDictionary == MakeDictionary(<<>>, <<"_b", "c", "_a">>)
PosDictionary == MakeDictionary(<<>>, <<"NNG", "JKS">>)
Label0Symbols == <<"gov0", "gov1", "gov2">>
Label1Symbols == <<"NP_SBJ", "VP">>

Tasks ==
    {[source_dictionary |-> SourceDictionary,
      pos_dictionary |-> PosDictionary,
      label0_dictionary |-> MakeDictionary(<<>>, Label0Symbols),
      label1_dictionary |-> MakeDictionary(x, Label1Symbols)] :
        x \in {<<>>, <<"<mask>">>}}

----------------------------------------------------------------------------
(* SegmentBertHubInterface.encode *)

MaxAddl == 2        \* auxiliary sentences of one encode call

\* A sentence is the sequence of its words.
Sentences == {<<>>, <<"bc">>, <<"d", "bc">>}

BpeEncode(word) == IF word = "bc" THEN <<"_b", "c">> ELSE <<"_" \o word>>

RECURSIVE BpeSentence(_)
BpeSentence(sentence) ==
    IF sentence = <<>> THEN <<>>
    ELSE BpeEncode(Head(sentence)) \o BpeSentence(Tail(sentence))

\* self.tokenize(sentence, add_special_tokens)
tokenize(sentence, add_special_tokens) ==
    IF add_special_tokens
    THEN <<"<s>">> \o BpeSentence(sentence) \o <<"</s>">>
    ELSE BpeSentence(sentence)

\* lines 38-41: the loop over addl_sentences
RECURSIVE AppendSentences(_, _, _, _)
AppendSentences(bpe_sentence, addl_sentences, add_special_tokens, no_separator) ==
    IF addl_sentences = <<>> THEN bpe_sentence
    ELSE LET s == Head(addl_sentences)
             b1 == bpe_sentence \o
                   (IF ~no_separator /\ add_special_tokens THEN <<"</s>">> ELSE <<>>)
             b2 == b1 \o
                   (IF add_special_tokens
                    THEN tokenize(s, FALSE) \o <<"</s>">>
                    ELSE <<>>)
         IN AppendSentences(b2, Tail(addl_sentences), add_special_tokens, no_separator)

\* lines 26-48
encode(tk, sentence, addl_sentences, add_special_tokens, no_separator) ==
    LET bpe_sentence == AppendSentences(tokenize(sentence, add_special_tokens),
                                        addl_sentences, add_special_tokens,
                                        no_separator)
        r == EncodeLine(tk.source_dictionary, bpe_sentence, FALSE, FALSE)
    IN [bpe_sentence |-> bpe_sentence, tokens |-> r.ids,
        source_dictionary |-> r.dict]

----------------------------------------------------------------------------
(* SegmentBertHubInterface.extract_features, predict; the model's forward *)

\* RobertaLabelEncoder.max_positions, reached through self.model.max_positions()
MaxPositions(args_max_positions) == args_max_positions

\* Faulty variant: the comparison is off by one.
ExceedsMaxPositionsOffByOne(length, maximum) == length >= maximum

\* line 58
ExceedsMaxPositions(length, maximum) == length > maximum

\* A tensor is given by its shape.  lines 50-72
extract_features(shape, return_all_hiddens, args_max_positions) ==
    LET tokens == IF Len(shape) = 1 THEN <<1>> \o shape ELSE shape
        length == tokens[Len(tokens)]
    IN IF ExceedsMaxPositions(length, MaxPositions(args_max_positions))
       THEN [status |-> "ValueError", length |-> length,
             maximum |-> MaxPositions(args_max_positions),
             model_calls |-> 0, shape |-> <<>>, all_hiddens |-> FALSE]
       ELSE [status |-> "ok", length |-> length,
             maximum |-> MaxPositions(args_max_positions),
             model_calls |-> 1,
             shape |-> tokens \o <<encoder_embed_dim>>,
             all_hiddens |-> return_all_hiddens]

\* Faulty variant: a missing name is registered with the default shape on lookup.
HeadLookupRegisters(heads, head) ==
    [status |-> "ok",
     heads |-> IF Contains(heads, head) THEN heads
               ELSE SetItem(heads, head,
                            RobertaClassificationHead(encoder_embed_dim,
                                DefaultInnerDim, DefaultNumClasses, 0))]

\* self.model.classification_heads[head]: a lookup; a missing name is a KeyError
HeadLookup(heads, head) ==
    IF Contains(heads, head)
    THEN [status |-> "ok", heads |-> heads]
    ELSE [status |-> "KeyError", heads |-> heads]

\* lines 74-89
predict(heads, head, shape, return_logits, args_max_positions) ==
    LET f == extract_features(shape, FALSE, args_max_positions)
        h == HeadLookup(heads, head)
    IN IF f.status # "ok"
       THEN [status |-> f.status, features |-> f, result |-> "", heads |-> heads]
       ELSE IF h.status # "ok"
       THEN [status |-> h.status, features |-> f, result |-> "", heads |-> h.heads]
       ELSE [status |-> "ok", features |-> f,
             result |-> IF return_logits THEN "logits" ELSE "log_softmax",
             heads |-> h.heads]

NoneName == "None"

\* RobertaSegmentModel.forward, lines 257-279, over the decoder's forward
forward(heads, features_only, return_all_hiddens, classification_head_name) ==
    LET fo == IF classification_head_name # NoneName THEN TRUE ELSE features_only
        x == IF fo THEN "features" ELSE "lm_logits"
        h == HeadLookup(heads, classification_head_name)
    IN IF classification_head_name # NoneName
       THEN IF h.status = "ok"
            THEN [status |-> "ok", result |-> "head_logits", heads |-> h.heads]
            ELSE [status |-> h.status, result |-> "", heads |-> h.heads]
       ELSE [status |-> "ok", result |-> x, heads |-> heads]

----------------------------------------------------------------------------
(* SegmentBertHubInterface.predict_dependency *)

PadLen == 512
MaxTokens == 2      \* entries of a short token list

\* ' '.join(strs).split(): the words of all the strings, in order
RECURSIVE Flatten(_)
Flatten(strs) ==
    IF strs = <<>> THEN <<>>
    ELSE IF Len(strs) = 1 THEN strs[1]
    ELSE LET half == Len(strs) \div 2
         IN Flatten(SubSeq(strs, 1, half)) \o Flatten(SubSeq(strs, half + 1, Len(strs)))

\* f"<s> {' '.join(tokens)} </s>".split()
Bracket(strs) == <<"<s>">> \o Flatten(strs) \o <<"</s>">>

\* ["<pad>"] * n
PadList(n) == IF n > 0 THEN [i \in 1..n |-> "<pad>"] ELSE <<>>

Min(a, b) == IF a < b THEN a ELSE b

\* s[lo:hi] for 0 <= lo, 0 <= hi (0-based, hi exclusive, clipped to the length)
PySlice(s, lo, hi) == SubSeq(s, lo + 1, Min(hi, Len(s)))

\* Faulty variant: the slice ends at the padded length, not the original one.
ReturnedSlicePadded(preds, ori_len) == PySlice(preds, 1, Len(preds) - 1)

\* line 131 and line 134: the positions returned
ReturnedSlice(preds, ori_len) == PySlice(preds, 1, ori_len - 1)

\* Faulty variant: the relation label is offset by the other dictionary's count.
label1_fn_label0_offset(tk, pred) ==
    DictString(tk.label1_dictionary, pred + tk.label0_dictionary.nspecial)

\* lines 126-127, 130, 133
label0_fn(tk, pred) ==
    DictString(tk.label0_dictionary, pred + tk.label0_dictionary.nspecial)
label1_fn(tk, pred) ==
    DictString(tk.label1_dictionary, pred + tk.label1_dictionary.nspecial)

\* lines 91-135.  head_out and label_out give the argmax class index the
\* dependency head predicts at each position of the padded input.
predict_dependency(heads, tk, args_max_positions, tokens, segments, head_out, label_out) ==
    LET toks0 == Bracket(tokens)
        segs0 == Bracket(segments)
        ori_len == Len(toks0)
        to_pad == PadLen - ori_len
        toks == toks0 \o PadList(to_pad)
        segs == segs0 \o PadList(to_pad)
        tok_ids == [i \in DOMAIN toks |-> DictIndex(tk.source_dictionary, toks[i])]
        seg_ids == [i \in DOMAIN segs |-> DictIndex(tk.pos_dictionary, segs[i])]
        masks == [i \in DOMAIN tok_ids |-> tok_ids[i] = 1]
        f == extract_features(<<Len(tok_ids)>>, FALSE, args_max_positions)
        h == HeadLookup(heads, "dependency_parse_head")
        head == head_out[Len(tok_ids)]
        label == label_out[Len(tok_ids)]
        g == ReturnedSlice(head, ori_len)
        r == ReturnedSlice(label, ori_len)
        base == [status |-> "ok", ori_len |-> ori_len, padded_len |-> Len(tok_ids),
                 n_masked |-> Cardinality({i \in DOMAIN masks : masks[i]}),
                 features |-> f, heads |-> heads,
                 head |-> <<>>, label |-> <<>>, governors |-> <<>>, relations |-> <<>>]
    IN IF f.status # "ok" THEN [base EXCEPT !.status = f.status]
       ELSE IF h.status # "ok" THEN [base EXCEPT !.status = h.status, !.heads = h.heads]
       ELSE [base EXCEPT !.head = head, !.label = label, !.heads = h.heads,
                !.governors = [i \in DOMAIN g |-> label0_fn(tk, g[i])],
                !.relations = [i \in DOMAIN r |-> label1_fn(tk, r[i])]]

----------------------------------------------------------------------------
(* State machine of the hub interface over a loaded model *)

MaxPositionsArgs == {256, 512, 1024}

\* Token lists: short lists of strings of zero, one or two words, and lists
\* of one-word strings around the pad length.
TokenStrings == {<<>>, <<"bc">>, <<"bc", "d">>}

RECURSIVE SeqsUpTo(_, _)
SeqsUpTo(S, n) ==
    IF n = 0 THEN {<<>>}
    ELSE LET shorter == SeqsUpTo(S, n - 1)
         IN shorter \cup {Append(q, x) : q \in shorter, x \in S}

LongTokenLists == {[i \in 1..n |-> <<"bc">>] : n \in (PadLen - 3)..(PadLen - 1)}
TokenLists == SeqsUpTo(TokenStrings, MaxTokens) \cup LongTokenLists

\* One segment tag for every word of the token list.
SegmentsFor(tokens) ==
    [i \in 1..Len(Flatten(tokens)) |-> IF i % 2 = 1 THEN <<"NNG">> ELSE <<"JKS">>]

\* Argmax outputs of the dependency head, for a sequence of every length n
\* the head may be given: the governor class at a position is
\* (a * position + b) mod classes, the relation class (position + a + b) mod classes.
ArgmaxOutput(classes, a, b) ==
    [n \in {PadLen, PadLen + 1} |-> [i \in 1..n |-> (a * (i - 1) + b) % classes]]

HeadOutputs ==
    {[head |-> ArgmaxOutput(Len(Label0Symbols), a, b),
      label |-> ArgmaxOutput(Len(Label1Symbols), 1, a + b)] :
        a \in {0, 1}, b \in {0, 1}}

TensorShapes(maximum) ==
    {<<n>> : n \in {1, maximum - 1, maximum, maximum + 1}}
    \cup {<<2, n>> : n \in {maximum, maximum + 1}}

Idle == [status |-> "none"]

InitHub ==
    /\ InitModel(InitialModels)
    /\ max_positions \in MaxPositionsArgs
    /\ task \in Tasks
    /\ out = Idle

HubOp(kind) == [NoOp EXCEPT !.kind = kind]
HubPre == [heads |-> classification_heads, state_dict |-> state_dict,
           reg_args |-> reg_args, task |-> task]

Encode(sentence, addl_sentences, add_special_tokens, no_separator) ==
    /\ out = Idle
    /\ LET r == encode(task, sentence, addl_sentences, add_special_tokens,
                       no_separator)
       IN /\ out' = [status |-> "ok",
                     call |-> [sentence |-> sentence,
                               addl_sentences |-> addl_sentences,
                               add_special_tokens |-> add_special_tokens,
                               no_separator |-> no_separator],
                     r |-> [bpe_sentence |-> r.bpe_sentence, tokens |-> r.tokens]]
          /\ task' = [task EXCEPT !.source_dictionary = r.source_dictionary]
    /\ op' = HubOp("encode")
    /\ pre' = HubPre
    /\ UNCHANGED <<modelVars, max_positions>>

ExtractFeatures(shape, return_all_hiddens) ==
    /\ out = Idle
    /\ LET r == extract_features(shape, return_all_hiddens, max_positions)
       IN out' = [status |-> r.status,
                  call |-> [shape |-> shape, return_all_hiddens |-> return_all_hiddens],
                  r |-> r]
    /\ op' = HubOp("extract_features")
    /\ pre' = HubPre
    /\ UNCHANGED <<modelVars, max_positions, task>>

Predict(head, shape, return_logits) ==
    /\ out = Idle
    /\ LET r == predict(classification_heads, head, shape, return_logits,
                        max_positions)
       IN /\ out' = [status |-> r.status,
                     call |-> [head |-> head, shape |-> shape,
                               return_logits |-> return_logits],
                     r |-> [features |-> r.features, result |-> r.result]]
          /\ classification_heads' = r.heads
    /\ op' = HubOp("predict")
    /\ pre' = HubPre
    /\ UNCHANGED <<state_dict, printed, next_id, reg_args, max_positions, task>>

Forward(features_only, return_all_hiddens, classification_head_name) ==
    /\ out = Idle
    /\ LET r == forward(classification_heads, features_only, return_all_hiddens,
                        classification_head_name)
       IN /\ out' = [status |-> r.status,
                     call |-> [features_only |-> features_only,
                               return_all_hiddens |-> return_all_hiddens,
                               classification_head_name |-> classification_head_name],
                     r |-> [result |-> r.result]]
          /\ classification_heads' = r.heads
    /\ op' = HubOp("forward")
    /\ pre' = HubPre
    /\ UNCHANGED <<state_dict, printed, next_id, reg_args, max_positions, task>>

PredictDependency(tokens, head_out, label_out) ==
    /\ out = Idle
    /\ LET r == predict_dependency(classification_heads, task, max_positions,
                                   tokens, SegmentsFor(tokens), head_out, label_out)
       IN /\ out' = [status |-> r.status,
                     call |-> [tokens |-> tokens],
                     r |-> [r EXCEPT !.heads = <<>>]]
          /\ classification_heads' = r.heads
    /\ op' = HubOp("predict_dependency")
    /\ pre' = HubPre
    /\ UNCHANGED <<state_dict, printed, next_id, reg_args, max_positions, task>>

\* The caller takes the result; the interface is ready for the next call.
Return ==
    /\ out # Idle
    /\ out' = Idle
    /\ op' = HubOp("return")
    /\ pre' = HubPre
    /\ UNCHANGED <<modelVars, max_positions, task>>

NextHub ==
    \/ \E s \in Sentences, addl \in SeqsUpTo(Sentences, MaxAddl),
          ast \in BOOLEAN, nosep \in BOOLEAN :
          Encode(s, addl, ast, nosep)
    \/ \E shape \in TensorShapes(max_positions), rah \in BOOLEAN :
          ExtractFeatures(shape, rah)
    \/ \E head \in HeadNames, shape \in TensorShapes(max_positions),
          rl \in BOOLEAN :
          Predict(head, shape, rl)
    \/ \E fo \in BOOLEAN, rah \in BOOLEAN, name \in HeadNames \cup {NoneName} :
          Forward(fo, rah, name)
    \/ \E tokens \in TokenLists, o \in HeadOutputs :
          PredictDependency(tokens, o.head, o.label)
    \/ Return

SpecHub == InitHub /\ [][NextHub]_vars

----------------------------------------------------------------------------
(* Properties of the hub interface (SpecHub) *)

LastDim(shape) == shape[Len(shape)]

\* C4: extract_features on tokens whose last dimension exceeds max_positions()
\* fails with a ValueError that carries that length and the maximum, and the
\* model is not invoked; for a length up to max_positions() the error is not
\* raised.
C4_TooLongRaisesValueError ==
    op.kind = "extract_features" =>
        LET n == LastDim(out.call.shape)
        IN /\ n > max_positions =>
                 /\ out.status = "ValueError"
                 /\ out.r.length = n
                 /\ out.r.maximum = max_positions
                 /\ out.r.model_calls = 0
           /\ n <= max_positions => out.status # "ValueError"

\* A batch of two sequences one token too long was refused.
C4_Witness ==
    /\ op.kind = "extract_features"
    /\ Len(out.call.shape) = 2
    /\ LastDim(out.call.shape) = max_positions + 1
    /\ out.status = "ValueError"

\* Length of the sentinel-bracketed token sequence of the last call
OriLen == Len(Flatten(out.call.tokens)) + 2

C7_LabelOffsetConvention ==
    (op.kind = "predict_dependency" /\ out.status = "ok") =>
        /\ \A i \in DOMAIN out.r.governors :
              out.r.governors[i] =
                  task.label0_dictionary.symbols[
                      out.r.head[i + 1] + task.label0_dictionary.nspecial + 1]
        /\ \A i \in DOMAIN out.r.relations :
              out.r.relations[i] =
                  task.label1_dictionary.symbols[
                      out.r.label[i + 1] + task.label1_dictionary.nspecial + 1]

\* Labels were returned from dictionaries with different special-id counts.
C7_Witness ==
    /\ op.kind = "predict_dependency"
    /\ out.status = "ok"
    /\ out.r.relations # <<>>
    /\ task.label0_dictionary.nspecial # task.label1_dictionary.nspecial

InferenceOps == {"encode", "extract_features", "predict", "forward",
                 "predict_dependency"}

\* C8: an inference operation, whether it succeeds or fails, leaves the head
\* registry with the heads it had.
C8_InferenceKeepsRegistry ==
    op.kind \in InferenceOps => classification_heads = pre.heads

\* A predict call failed on an unregistered head name while other heads
\* were registered.
C8_Witness ==
    /\ op.kind = "predict"
    /\ out.status = "KeyError"
    /\ classification_heads # <<>>

RECURSIVE BpeSentences(_)
BpeSentences(sentences) ==
    IF sentences = <<>> THEN <<>>
    ELSE BpeSentence(Head(sentences)) \o BpeSentences(Tail(sentences))

Count(s, x) == Cardinality({i \in DOMAIN s : s[i] = x})

\* C6: for every flag combination and number of auxiliary sentences, the
\* encoded string is the tokenized primary sentence followed in order by the
\* tokenized auxiliary sentences, with a separator between consecutive
\* sentences unless no_separator is set; the source dictionary is unchanged.
\* (Violated: without add_special_tokens the auxiliary sentences are dropped.)
C6_EncodedStringHoldsEverySentence ==
    op.kind = "encode" =>
        LET c == out.call
            n == Len(c.addl_sentences)
        IN /\ SelectSeq(out.r.bpe_sentence, LAMBDA t : t \notin {"<s>", "</s>"})
                 = BpeSentence(c.sentence) \o BpeSentences(c.addl_sentences)
           /\ c.add_special_tokens =>
                 Count(out.r.bpe_sentence, "</s>")
                     = (n + 1) + (IF c.no_separator THEN 0 ELSE n)
           /\ task.source_dictionary = pre.task.source_dictionary

=============================================================================
